---------------------------- MODULE Spec2Model ----------------------------
(* A model of email_agent.py: the mailbox fetch, the classifier call, the   *)
(* reply selection with its sanitation, the send and the script's entry     *)
(* point.  Text is a sequence of one-character strings.                     *)
EXTENDS Integers, Sequences, FiniteSets, TLC

(* ---------------------------- bounds ----------------------------------- *)
\* longest draft text drawn for the reply selection
MaxDraftLen == 3
\* longest text drawn for the sanitation step alone
MaxTextLen == 6
\* messages in the mailbox
NumMsgs == 2
\* invocations of the script that may overlap
NumInvocations == 2

(* ---------------------------- text ------------------------------------- *)
\* the lower-case form of each upper-case letter
ToLower ==
   [ A |-> "a", B |-> "b", C |-> "c", D |-> "d", E |-> "e", F |-> "f",
     G |-> "g", H |-> "h", I |-> "i", J |-> "j", K |-> "k", L |-> "l",
     M |-> "m", N |-> "n", O |-> "o", P |-> "p", Q |-> "q", R |-> "r",
     S |-> "s", T |-> "t", U |-> "u", V |-> "v", W |-> "w", X |-> "x",
     Y |-> "y", Z |-> "z" ]

\* str.lower() on one character
LowerChar(c) == IF c \in DOMAIN ToLower THEN ToLower[c] ELSE c

\* str.lower()
Lower(s) == [i \in 1..Len(s) |-> LowerChar(s[i])]

\* str.startswith(prefix)
StartsWith(s, prefix) ==
   /\ Len(prefix) <= Len(s)
   /\ \A i \in 1..Len(prefix) : s[i] = prefix[i]

\* the characters str.strip() removes
Whitespace == {" ", "\n", "\t", "\r"}

\* str.strip(): drop leading and trailing whitespace
Strip(s) ==
   IF \A i \in 1..Len(s) : s[i] \in Whitespace THEN <<>>
   ELSE LET lo == CHOOSE i \in 1..Len(s) :
                     s[i] \notin Whitespace
                     /\ \A j \in 1..(i-1) : s[j] \in Whitespace
            hi == CHOOSE i \in 1..Len(s) :
                     s[i] \notin Whitespace
                     /\ \A j \in (i+1)..Len(s) : s[j] \in Whitespace
        IN  SubSeq(s, lo, hi)

\* the same for the pattern <[^<>]+>, which lets no '<' into the run
TagEndLoose(s, i) ==
   IF /\ i + 1 <= Len(s)
      /\ s[i] = "<"
      /\ s[i+1] \notin {">", "<"}
      /\ \E j \in (i+2)..Len(s) : s[j] = ">"
   THEN LET j == CHOOSE j \in (i+2)..Len(s) :
                    s[j] = ">" /\ \A k \in (i+2)..(j-1) : s[k] # ">"
        IN  IF \A k \in (i+1)..(j-1) : s[k] # "<" THEN j ELSE 0
   ELSE 0

\* Where a match of <[^>]+> that starts at i ends, or 0 when none starts
\* there: s[i] is '<', at least one character other than '>' follows, and
\* the run of such characters is closed by a '>'.
TagEnd(s, i) ==
   IF /\ i + 1 <= Len(s)
      /\ s[i] = "<"
      /\ s[i+1] # ">"
      /\ \E j \in (i+2)..Len(s) : s[j] = ">"
   THEN CHOOSE j \in (i+2)..Len(s) :
           s[j] = ">" /\ \A k \in (i+2)..(j-1) : s[k] # ">"
   ELSE 0

\* where the leftmost match at or after i starts, or 0 when there is none
NextTag(s, i) ==
   LET starts == {p \in i..Len(s) : TagEnd(s, p) # 0}
   IN  IF starts = {} THEN 0
       ELSE CHOOSE p \in starts : \A q \in starts : p <= q

RECURSIVE SubTagsFrom(_, _)
\* re.sub scans left to right: the text before the leftmost match is kept,
\* the match is dropped and the scan resumes after it
SubTagsFrom(s, i) ==
   LET p == NextTag(s, i)
   IN  IF p = 0 THEN SubSeq(s, i, Len(s))
       ELSE SubSeq(s, i, p - 1) \o SubTagsFrom(s, TagEnd(s, p) + 1)

\* re.sub(r"<[^>]+>", "", s)
SubTags(s) == SubTagsFrom(s, 1)

\* re.sub(r"<[^>]+>", "", reply).strip()
Sanitise(s) == Strip(SubTags(s))

SAFE_DEFAULT_REPLY ==
   << "T", "h", "a", "n", "k", " ", "y", "o", "u", " ", "f", "o", "r", " ",
      "r", "e", "a", "c", "h", "i", "n", "g", " ", "o", "u", "t", ".", " ",
      "I", " ", "w", "i", "l", "l", " ", "r", "e", "v", "i", "e", "w", " ",
      "y", "o", "u", "r", " ", "m", "e", "s", "s", "a", "g", "e", " ", "a",
      "n", "d", " ", "r", "e", "s", "p", "o", "n", "d", " ", "s", "h", "o",
      "r", "t", "l", "y", ".", "\n", "\n", "B", "e", "s", "t", " ", "r", "e",
      "g", "a", "r", "d", "s", ",", "\n", "E", "M", "A", "Y", "A", "N", " ",
      "R", " ", "M" >>

\* the tuple without its last token
GreetingTokensShort ==
   { <<"h","e","l","l","o">>, <<"h","i">>, <<"d","e","a","r">> }

\* the tuple given to startswith
GreetingTokens ==
   { <<"h","e","l","l","o">>, <<"h","i">>, <<"d","e","a","r">>,
     <<"t","h","a","n","k"," ","y","o","u">> }

\* reply.lower().startswith(("hello", "hi", "dear", "thank you"))
StartsWithGreeting(s) ==
   LET low == Lower(s)
   IN  \E t \in GreetingTokens : StartsWith(low, t)

\* f"Hello,\n\n{reply}"
HelloPrefix == << "H", "e", "l", "l", "o", ",", "\n", "\n" >>


(* ---------------------------- values ----------------------------------- *)
\* Python's None and a present value, as a sequence of at most one element
None == <<>>
Some(v) == <<v>>

FlagKeys == {"is_technical", "request_meeting"}
DraftKeys ==
   {"simple_reply_draft", "non_technical_reply_draft", "meeting_suggestion_draft"}
\* RESPONSE_SCHEMA_JSON["required"]
RequiredKeys == FlagKeys \cup DraftKeys

\* dict.get(key, default)
Get(d, k, default) == IF k \in DOMAIN d THEN d[k] ELSE default

(* ---------------------------- classifier ------------------------------- *)
\* _run_ai_agent.  resp is what the service call does: it raises, or its
\* text holds no {...} substring, or the substring does not decode, or it
\* decodes to the object resp.obj.
RunAiAgent(client, resp) ==
   IF ~client THEN None
   ELSE IF resp.kind = "object" THEN Some(resp.obj)
   ELSE None

(* ---------------------------- reply selection -------------------------- *)
\* the branch order of the flags swapped
ChosenFieldSwapped(d) ==
   IF Get(d, "is_technical", FALSE) /\ Get(d, "request_meeting", FALSE)
   THEN "simple_reply_draft"
   ELSE IF Get(d, "is_technical", FALSE) THEN "meeting_suggestion_draft"
   ELSE "non_technical_reply_draft"

\* the draft field the flags choose
ChosenField(d) ==
   IF Get(d, "is_technical", FALSE) /\ Get(d, "request_meeting", FALSE)
   THEN "meeting_suggestion_draft"
   ELSE IF Get(d, "is_technical", FALSE) THEN "simple_reply_draft"
   ELSE "non_technical_reply_draft"

\* `not ai_output`: None and the empty dict are falsy
Falsy(ai) == ai = None \/ DOMAIN ai[1] = {}

\* the reply before sanitation
SelectDraft(ai) ==
   IF Falsy(ai) THEN SAFE_DEFAULT_REPLY
   ELSE Get(ai[1], ChosenField(ai[1]), SAFE_DEFAULT_REPLY)

\* the test without its `not`
NeedsGreetingInverted(reply) == StartsWithGreeting(reply)

\* `not reply.lower().startswith((...))`
NeedsGreeting(reply) == ~StartsWithGreeting(reply)

\* sanitation and greeting normalisation
FinalReply(reply) ==
   LET r == Sanitise(reply)
   IN  IF NeedsGreeting(r) THEN HelloPrefix \o r ELSE r

\* the reply selection of main_agent_workflow
SelectReply(ai) == FinalReply(SelectDraft(ai))

(* ---------------------------- inputs ----------------------------------- *)
\* every text over alphabet A of length at most n
Texts(A, n) == UNION {[1..k -> A] : k \in 0..n}

TextAlphabet == {"<", ">", " ", "a"}
DraftAlphabet == {"<", ">", " ", "H", "i"}

\* longer drafts, for the greeting tokens a short text cannot spell
SampleDrafts ==
   { <<"D","e","a","r"," ","a">>,
     <<" ","<","b",">","h","e","l","l","o","<","/","b",">","\n">>,
     <<"T","h","a","n","k"," ","y","o","u">>,
     <<"T","h","a","n","k","s">>,
     <<"L","e","t","'","s"," ","m","e","e","t">> }

Drafts == Texts(DraftAlphabet, MaxDraftLen) \cup SampleDrafts

\* a text that tells which draft field a reply was taken from
Mark(k) ==
   IF k = "meeting_suggestion_draft" THEN <<"M","!">>
   ELSE IF k = "simple_reply_draft" THEN <<"S","!">>
   ELSE <<"N","!">>

\* decoded objects: any subset of the keys; each draft field holds the
\* drawn draft or its own mark
Objects(draft) ==
   { f @@ g :
       f \in UNION {[K -> BOOLEAN] : K \in SUBSET FlagKeys},
       g \in UNION {{h \in [K -> {draft} \cup {Mark(k) : k \in DraftKeys}] :
                        \A k \in K : h[k] \in {draft, Mark(k)}} :
                    K \in SUBSET DraftKeys} }

Responses(draft) ==
   {[kind |-> k, obj |-> <<>>] : k \in {"raise", "nomatch", "badjson"}}
   \cup {[kind |-> "object", obj |-> o] : o \in Objects(draft)}

(* ---------------------------- mailbox ---------------------------------- *)
\* the __main__ blocks at the end of the script, each calling the workflow
NumMainBlocks == 2

Msgs == 1..NumMsgs
Invocations == 1..NumInvocations

\* the messages a mailbox may hold: the From header (empty when absent),
\* the Subject header when present, the plain-text body, and whether the
\* payload decodes
MsgNamed ==
   [from |-> <<"N", " ", "<", "a", "@", "x", ">">>, subject |-> Some(<<"S">>),
    body |-> <<"q">>, decodable |-> TRUE]
MsgNoFrom ==
   [from |-> <<>>, subject |-> None, body |-> <<>>, decodable |-> TRUE]
MsgUndecodable ==
   [from |-> <<"b", "@", "y">>, subject |-> Some(<<"S">>),
    body |-> <<>>, decodable |-> FALSE]
Profiles == <<MsgNamed, MsgNoFrom, MsgUndecodable>>

\* the mailboxes a run may find: the three kinds of message in turn,
\* starting from any of them
Mailboxes ==
   { [m \in Msgs |-> Profiles[((m + k) % Len(Profiles)) + 1]] :
        k \in 1..Len(Profiles) }

\* email_message.get("Subject", "No Subject")
NoSubject == <<"N", "o", " ", "S", "u", "b", "j", "e", "c", "t">>
SubjectOf(msg) == IF msg.subject = None THEN NoSubject ELSE msg.subject[1]

\* re.search(r"<([^>]+)>", from_header): group 1 of the leftmost match,
\* else the header itself
ExtractFrom(h) ==
   LET p == NextTag(h, 1)
   IN  IF p = 0 THEN h ELSE SubSeq(h, p + 1, TagEnd(h, p) - 1)

\* a search that ignores the flag
UnseenIdsAll(flags) == [i \in 1..NumMsgs |-> i]

\* mail.search(None, 'UNSEEN'): the ids without the seen flag, ascending
UnseenIds(flags) ==
   LET U == {m \in Msgs : ~flags[m]}
   IN  [k \in 1..Cardinality(U) |->
          CHOOSE m \in U : Cardinality({n \in U : n < m}) = k - 1]

\* a store that sets nothing
StoreNothing(flags, id) == flags

\* mail.store(latest_id, '+FLAGS', '\\Seen')
StoreSeen(flags, id) == [flags EXCEPT ![id] = TRUE]

\* f"Re: {subject}"
RePrefix == <<"R", "e", ":", " ">>

\* what the service may answer in a workflow run
WorkflowResponses ==
   { [kind |-> "raise", obj |-> <<>>],
     [kind |-> "nomatch", obj |-> <<>>],
     [kind |-> "badjson", obj |-> <<>>],
     [kind |-> "object",
      obj |-> [is_technical |-> TRUE, request_meeting |-> TRUE,
               simple_reply_draft |-> Mark("simple_reply_draft"),
               non_technical_reply_draft |-> Mark("non_technical_reply_draft"),
               meeting_suggestion_draft |->
                  <<"L","e","t","'","s"," ","m","e","e","t">>]],
     [kind |-> "object",
      obj |-> [is_technical |-> FALSE, non_technical_reply_draft |-> <<>>]] }

(* ---------------------------- state ------------------------------------ *)
VARIABLES
   text,    \* the text under sanitation, or the draft drawn for a response
   resp,    \* the service's response
   client,  \* whether gemini_client is configured
   ai,      \* what _run_ai_agent returned
   reply,   \* the final reply
   once,    \* the text sanitised once
   twice,   \* the text sanitised twice
   phase,
   scheduled,  \* the invocations the external timer starts
   creds,      \* whether EMAIL_ADDRESS and EMAIL_PASSWORD are set
   mailbox,    \* the message behind each id
   seen,       \* the \Seen flag of each id
   pc,         \* where each invocation stands
   run,        \* the __main__ blocks an invocation has entered
   ids,        \* the ids its search returned
   latest,     \* latest_id once the flag is stored on it, 0 before
   fetched,    \* what _fetch_latest_unread_email returned
   aiOut,      \* what _run_ai_agent returned
   log,        \* the last line the invocation printed
   outbox,     \* the mails handed to _send_smtp_email
   invMarks,   \* the seen flags an invocation has stored
   invSends,   \* the send attempts an invocation has made
   stored,     \* the ids some fetch call has stored the flag on
   storedBefore, \* the value of stored when an invocation's search ran
   deliveries  \* for each id, the fetch calls that returned its message

pureVars == <<text, resp, client, ai, reply, once, twice, phase>>
locals == <<ids, latest, fetched, aiOut, storedBefore>>
history == <<outbox, invMarks, invSends, stored, deliveries>>
flowVars == <<scheduled, creds, mailbox, seen, pc, run, log, locals, history>>
vars == <<pureVars, flowVars>>

\* the workflow's part of the state before any invocation has started
FlowIdle ==
   /\ pc = [p \in Invocations |-> "main"]
   /\ run = [p \in Invocations |-> 0]
   /\ ids = [p \in Invocations |-> <<>>]
   /\ latest = [p \in Invocations |-> 0]
   /\ fetched = [p \in Invocations |-> None]
   /\ aiOut = [p \in Invocations |-> None]
   /\ log = [p \in Invocations |-> ""]
   /\ outbox = {}
   /\ invMarks = [p \in Invocations |-> 0]
   /\ invSends = [p \in Invocations |-> 0]
   /\ stored = {}
   /\ storedBefore = [p \in Invocations |-> {}]
   /\ deliveries = [m \in Msgs |-> 0]

\* the part of the state only the pure specifications use
PureIdle ==
   /\ text = <<>>
   /\ resp = [kind |-> "raise", obj |-> <<>>]
   /\ ai = None
   /\ reply = <<>>
   /\ once = <<>>
   /\ twice = <<>>
   /\ phase = "input"

(* ------------------- the sanitation step on its own -------------------- *)
InitSanitise ==
   /\ text \in Texts(TextAlphabet, MaxTextLen)
   /\ resp = [kind |-> "raise", obj |-> <<>>]
   /\ client = FALSE
   /\ ai = None
   /\ reply = <<>>
   /\ once = <<>>
   /\ twice = <<>>
   /\ phase = "input"
   /\ scheduled = {}
   /\ creds = FALSE
   /\ mailbox = [m \in Msgs |-> MsgNamed]
   /\ seen = [m \in Msgs |-> TRUE]
   /\ FlowIdle

SanitiseOnce ==
   /\ phase = "input"
   /\ once' = Sanitise(text)
   /\ phase' = "once"
   /\ UNCHANGED <<text, resp, client, ai, reply, twice, flowVars>>

SanitiseTwice ==
   /\ phase = "once"
   /\ twice' = Sanitise(once)
   /\ phase' = "twice"
   /\ UNCHANGED <<text, resp, client, ai, reply, once, flowVars>>

NextSanitise == SanitiseOnce \/ SanitiseTwice

SpecSanitise == InitSanitise /\ [][NextSanitise]_vars

(* ------------------- classifier and reply selection -------------------- *)
InitSelect ==
   /\ text \in Drafts
   /\ \/ client = TRUE /\ resp \in Responses(text)
      \* without a client no call is made and there is no response
      \/ client = FALSE /\ resp = [kind |-> "raise", obj |-> <<>>]
   /\ ai = None
   /\ reply = <<>>
   /\ once = <<>>
   /\ twice = <<>>
   /\ phase = "input"
   /\ scheduled = {}
   /\ creds = FALSE
   /\ mailbox = [m \in Msgs |-> MsgNamed]
   /\ seen = [m \in Msgs |-> TRUE]
   /\ FlowIdle

Classify ==
   /\ phase = "input"
   /\ ai' = RunAiAgent(client, resp)
   /\ phase' = "classified"
   /\ UNCHANGED <<text, resp, client, reply, once, twice, flowVars>>

Select ==
   /\ phase = "classified"
   /\ reply' = SelectReply(ai)
   /\ phase' = "selected"
   /\ UNCHANGED <<text, resp, client, ai, once, twice, flowVars>>

NextSelect == Classify \/ Select

SpecSelect == InitSelect /\ [][NextSelect]_vars

(* ---------------------------- workflow --------------------------------- *)
\* One invocation over every configuration and mailbox, or every
\* invocation over an all-unread mailbox with the mail account configured
\* and the classifier not.
Init ==
   /\ PureIdle
   /\ mailbox \in Mailboxes
   /\ \/ /\ scheduled = {1}
         /\ client \in BOOLEAN
         /\ creds \in BOOLEAN
         /\ seen \in [Msgs -> BOOLEAN]
      \/ /\ scheduled = Invocations
         /\ client = FALSE
         /\ creds = TRUE
         /\ seen = [m \in Msgs |-> FALSE]
   /\ FlowIdle

\* `if not from_email`: None and the empty string are falsy
NoSender(f) == f = None \/ f[1].from_email = <<>>

\* main_agent_workflow returns: its locals are gone
Return(p, line) ==
   /\ pc' = [pc EXCEPT ![p] = "returned"]
   /\ log' = [log EXCEPT ![p] = line]
   /\ ids' = [ids EXCEPT ![p] = <<>>]
   /\ latest' = [latest EXCEPT ![p] = 0]
   /\ fetched' = [fetched EXCEPT ![p] = None]
   /\ aiOut' = [aiOut EXCEPT ![p] = None]
   /\ storedBefore' = [storedBefore EXCEPT ![p] = {}]

\* An invocation enters its next __main__ block: main_agent_workflow starts
\* and _fetch_latest_unread_email checks the credentials.  Invocations are
\* numbered in the order they start.
StartRun(p) ==
   /\ pc[p] \in {"main", "returned"}
   /\ run[p] < NumMainBlocks
   /\ p \in scheduled
   /\ \A q \in Invocations : q < p => run[q] > 0
   /\ run' = [run EXCEPT ![p] = @ + 1]
   /\ IF creds
      THEN /\ pc' = [pc EXCEPT ![p] = "search"]
           /\ log' = [log EXCEPT ![p] = "START"]
           /\ UNCHANGED locals
      ELSE Return(p, "NO_CREDS")
   /\ UNCHANGED <<pureVars, scheduled, creds, mailbox, seen, history>>

\* login, select, search, store or fetch raises: the except clause returns
\* (None, None, None) and the workflow returns
ImapError(p) ==
   /\ pc[p] \in {"search", "store", "fetch"}
   /\ Return(p, "IMAP_ERROR")
   /\ UNCHANGED <<pureVars, scheduled, creds, mailbox, seen, run, history>>

\* mail.search(None, 'UNSEEN') and the test for an empty answer
Search(p) ==
   /\ pc[p] = "search"
   /\ IF Len(UnseenIds(seen)) = 0
      THEN Return(p, "NO_UNREAD")
      ELSE /\ ids' = [ids EXCEPT ![p] = UnseenIds(seen)]
           /\ storedBefore' = [storedBefore EXCEPT ![p] = stored]
           /\ pc' = [pc EXCEPT ![p] = "store"]
           /\ UNCHANGED <<log, latest, fetched, aiOut>>
   /\ UNCHANGED <<pureVars, scheduled, creds, mailbox, seen, run, history>>

\* latest_id = ids[-1] and the store of the seen flag on it
Store(p) ==
   /\ pc[p] = "store"
   /\ latest' = [latest EXCEPT ![p] = ids[p][Len(ids[p])]]
   /\ seen' = StoreSeen(seen, latest'[p])
   /\ stored' = stored \cup {latest'[p]}
   /\ invMarks' = [invMarks EXCEPT ![p] = @ + 1]
   /\ pc' = [pc EXCEPT ![p] = "fetch"]
   /\ UNCHANGED <<pureVars, scheduled, creds, mailbox, run, log, ids,
                  fetched, aiOut, storedBefore, outbox, invSends,
                  deliveries>>

\* mail.fetch, the parse of the headers and the body, the return, and the
\* workflow's test of from_email
FetchMessage(p) ==
   LET msg == mailbox[latest[p]]
       got == [from_email |-> ExtractFrom(msg.from),
               subject |-> SubjectOf(msg),
               body |-> msg.body]
   IN  /\ pc[p] = "fetch"
       /\ IF ~msg.decodable
          THEN /\ Return(p, "IMAP_ERROR")
               /\ UNCHANGED deliveries
          ELSE /\ deliveries' = [deliveries EXCEPT ![latest[p]] = @ + 1]
               /\ IF NoSender(Some(got))
                  THEN Return(p, log[p])
                  ELSE /\ fetched' = [fetched EXCEPT ![p] = Some(got)]
                       /\ pc' = [pc EXCEPT ![p] = "classify"]
                       /\ UNCHANGED <<log, ids, latest, aiOut, storedBefore>>
       /\ UNCHANGED <<pureVars, scheduled, creds, mailbox, seen, run, outbox,
                      invMarks, invSends, stored>>

\* the call of _run_ai_agent
RunAI(p) ==
   /\ pc[p] = "classify"
   /\ \E r \in WorkflowResponses :
         aiOut' = [aiOut EXCEPT ![p] = RunAiAgent(client, r)]
   /\ pc' = [pc EXCEPT ![p] = "reply"]
   /\ UNCHANGED <<pureVars, scheduled, creds, mailbox, seen, run, log, ids,
                  latest, fetched, storedBefore, history>>

\* the reply selection and the call of _send_smtp_email, whose result the
\* workflow drops; then the workflow returns
SendReply(p) ==
   /\ pc[p] = "reply"
   /\ outbox' = outbox \cup
         { [to |-> fetched[p][1].from_email,
            subject |-> RePrefix \o fetched[p][1].subject,
            body |-> SelectReply(aiOut[p])] }
   /\ invSends' = [invSends EXCEPT ![p] = @ + 1]
   /\ Return(p, "DONE")
   /\ UNCHANGED <<pureVars, scheduled, creds, mailbox, seen, run, invMarks,
                  stored, deliveries>>

Next ==
   \E p \in Invocations :
      \/ StartRun(p)
      \/ ImapError(p)
      \/ Search(p)
      \/ Store(p)
      \/ FetchMessage(p)
      \/ RunAI(p)
      \/ SendReply(p)

Spec == Init /\ [][Next]_vars


(* ============================ claims =================================== *)
\* the greeting tokens as the claims list them
ListedGreetings ==
   { <<"h","e","l","l","o">>, <<"h","i">>, <<"d","e","a","r">>,
     <<"t","h","a","n","k"," ","y","o","u">> }

BeginsWithListedGreeting(s) ==
   \E t \in ListedGreetings : StartsWith(Lower(s), t)

\* '<', one or more characters other than '>', then '>', somewhere in s
HasTagLike(s) ==
   \E i \in 1..Len(s) : \E j \in (i+2)..Len(s) :
      s[i] = "<" /\ s[j] = ">" /\ \A k \in (i+1)..(j-1) : s[k] # ">"

\* the sender address of the message behind id m
SenderOf(m) == ExtractFrom(mailbox[m].from)

\* C1: every run that stores the seen flag on a message makes exactly one
\* send attempt, addressed to that message's sender, before it returns.
C1_ExactlyOneReplyPerSeenMessage ==
   [][\A p \in Invocations :
         /\ invSends'[p] \in {invSends[p], invSends[p] + 1}
         /\ (latest[p] # 0 /\ pc'[p] = "returned") =>
               /\ invSends'[p] = invSends[p] + 1
               /\ \E mail \in outbox' : mail.to = SenderOf(latest[p])]_vars

\* C2: the reply is exactly the safe-default text when the classification
\* is None or the flag-chosen draft is missing or empty.
C2_FallbackOnUnusableDraft ==
   (phase = "selected" /\
      (\/ ai = None
       \/ ChosenField(ai[1]) \notin DOMAIN ai[1]
       \/ ai[1][ChosenField(ai[1])] = <<>>))
   => reply = SAFE_DEFAULT_REPLY

\* C3: one invocation stores the seen flag on at most one message and
\* makes at most one send attempt.
C3_OneRunPerInvocation ==
   \A p \in Invocations : invMarks[p] <= 1 /\ invSends[p] <= 1

\* the draft field the classification d selects by the rule of C4, or ""
\* when the rule names none
C4Field(d) ==
   IF "is_technical" \notin DOMAIN d THEN ""
   ELSE IF ~d["is_technical"] THEN "non_technical_reply_draft"
   ELSE IF "request_meeting" \notin DOMAIN d THEN ""
   ELSE IF d["request_meeting"] THEN "meeting_suggestion_draft"
   ELSE "simple_reply_draft"

C4Case ==
   /\ phase = "selected"
   /\ ai # None
   /\ C4Field(ai[1]) \in DOMAIN ai[1]
   /\ ai[1][C4Field(ai[1])] # <<>>

\* C4: with a non-empty flag-selected draft, the reply is that draft with
\* tags removed and whitespace trimmed, preceded by "Hello," and two
\* newlines exactly when the sanitised draft begins with no greeting token.
C4_ReplyFromSelectedDraft ==
   C4Case =>
      LET clean == Sanitise(ai[1][C4Field(ai[1])])
      IN  reply = IF BeginsWithListedGreeting(clean) THEN clean
                  ELSE <<"H", "e", "l", "l", "o", ",", "\n", "\n">> \o clean

C4_Witness ==
   /\ C4Case
   /\ DraftKeys \subseteq DOMAIN ai[1]
   /\ ai[1]["is_technical"] /\ ai[1]["request_meeting"]
   /\ ai[1]["meeting_suggestion_draft"] = text
   /\ HasTagLike(text)
   /\ reply = Sanitise(text)
   /\ reply # <<>>

\* C5: a run whose classifier yields None goes on to the send, and the one
\* mail it sends goes to the message's sender with subject "Re: " plus the
\* message's subject and the safe-default text, unchanged, as body.
C5_UnclassifiedStillReplied ==
   [][\A p \in Invocations :
         /\ (pc[p] = "classify" /\ pc'[p] # "classify") => pc'[p] = "reply"
         /\ (pc[p] = "reply" /\ aiOut[p] = None /\ pc'[p] # "reply") =>
               /\ invSends'[p] = invSends[p] + 1
               /\ outbox' = outbox \cup
                     { [to |-> SenderOf(latest[p]),
                        subject |-> <<"R", "e", ":", " ">>
                                       \o SubjectOf(mailbox[latest[p]]),
                        body |-> SAFE_DEFAULT_REPLY] }]_vars

C5_Witness ==
   \E p \in Invocations : \E mail \in outbox :
      /\ log[p] = "DONE"
      /\ mail.body = SAFE_DEFAULT_REPLY
      /\ mail.to = <<"a", "@", "x">>
      /\ mail.subject = <<"R", "e", ":", " ", "S">>

\* C6: whatever the classifier returns other than None holds all five
\* required fields.
C6_ClassifierResultComplete ==
   (phase # "input" /\ ai # None) => DOMAIN ai[1] = RequiredKeys

\* C7: every final reply is non-empty and its lower-case form begins with
\* "hello", "hi", "dear" or "thank you".
C7_GreetingInvariant ==
   phase = "selected" => (reply # <<>> /\ BeginsWithListedGreeting(reply))

C7_Witness ==
   /\ phase = "selected"
   /\ ai # None
   /\ ChosenField(ai[1]) \in DOMAIN ai[1]
   /\ ai[1][ChosenField(ai[1])] = text
   /\ HasTagLike(text)
   /\ Sanitise(text) = <<>>
   /\ reply = <<"H", "e", "l", "l", "o", ",", "\n", "\n">>

\* C8: a run whose search finds every message seen returns at once: no
\* flag stored, no classifier call, no send, the mailbox as it was.
C8_NoUnreadIsNoOp ==
   [][\A p \in Invocations :
         (pc[p] = "search" /\ pc'[p] # "search" /\ \A m \in Msgs : seen[m]) =>
            /\ pc'[p] = "returned"
            /\ seen' = seen
            /\ mailbox' = mailbox
            /\ outbox' = outbox
            /\ invMarks' = invMarks
            /\ invSends' = invSends
            /\ deliveries' = deliveries]_vars

C8_Witness ==
   \E p \in Invocations :
      /\ pc[p] = "returned"
      /\ log[p] = "NO_UNREAD"
      /\ \A m \in Msgs : seen[m]
      /\ invMarks[p] = 0 /\ invSends[p] = 0

\* C9 as stated: no message is returned by more than one fetch call.
C9_AtMostOnceDelivery == \A m \in Msgs : deliveries[m] <= 1

\* C9 amended: a fetch call never takes a message on which a fetch call
\* had stored the seen flag before this call's search ran.
C9_NoRedeliveryAfterStore ==
   \A p \in Invocations : latest[p] # 0 => latest[p] \notin storedBefore[p]

C9_Witness ==
   \E p \in Invocations :
      /\ pc[p] = "classify"
      /\ storedBefore[p] # {}
      /\ \E q \in Invocations : q # p /\ invMarks[q] > 0

\* C10: sanitising a sanitised text changes nothing, and a sanitised text
\* holds no tag-like substring.
C10_SanitiseIdempotent ==
   phase = "twice" => (twice = once /\ ~HasTagLike(once))

C10_Witness ==
   /\ phase = "twice"
   /\ HasTagLike(text)
   /\ once # <<>>
   /\ Len(once) < Len(text) - 3

=============================================================================
